---- MODULE Spec2Model ----
(***************************************************************************)
(* The three condition-convergence waiters of test/utils (package utils):  *)
(*   VerifyPodsReadyByPrefix, WaitForESOResourceReady and                  *)
(*   WaitForExternalSecretsConfigReady,                                    *)
(* each a probe closure run by wait.PollUntilContextTimeout with a fixed   *)
(* 5 s interval, immediate=true.  One behaviour of the model is one wait   *)
(* call: Init draws the waiter and its arguments, the actions are the      *)
(* steps of the poll loop, the caller's cancellation and the passing of    *)
(* time (one unit = one second).  A probe runs in zero time.               *)
(***************************************************************************)
EXTENDS Integers, Sequences, FiniteSets, TLC

\* 5*time.Second, the poll period of all three waiters.
PollInterval == 5
\* 2*time.Minute, the fixed timeout of VerifyPodsReadyByPrefix.
PodsTimeout == 120
\* Largest caller-supplied timeout of the two resource waiters.
MaxTimeout == 16
\* The timeouts a caller passes: one on a tick boundary (the last tick races
\* the deadline) and one off it.
Timeouts == {MaxTimeout - 1, MaxTimeout}

\* Go's nil: a missing map key, a nil map, a nil error.  %v prints it "<nil>".
Nil == "<nil>"

(***************************************************************************)
(* Status documents.  Of u.Object only status.conditions matters: the      *)
(* field is absent, present with another shape than a list, or a list of   *)
(* entries.  An entry is a map with the four keys, each a string or        *)
(* missing (Nil), or it is not a map at all (BadEntry).  NilMap is the nil *)
(* map[string]interface{} the accumulators start as.                       *)
(***************************************************************************)
Entry(sh, t, s, r, m) ==
    [shape |-> sh, type |-> t, status |-> s, reason |-> r, message |-> m]
Cond(t, s, r, m) == Entry("map", t, s, r, m)
BadEntry == Entry("string", Nil, Nil, Nil, Nil)
NilMap == Entry("nil", Nil, Nil, Nil, Nil)

\* The conditions of one type that the status accessor may return.
CondsOf(t) ==
    {Cond(t, s, d[1], d[2]) : s \in {"True", "False"},
                              d \in {<<"r1", "m1">>, <<"r2", "m2">>}}
      \cup {Cond(t, "Unknown", "r1", "m1"), Cond(t, Nil, Nil, Nil)}

Opt(S) == {<<>>} \cup {<<x>> : x \in S}

\* Condition lists: at most one condition per type (the data model's
\* uniqueness rule), possibly led by a malformed entry or followed by a
\* condition of a type the waiters do not look at.
ConditionLists ==
    {x[1] \o r \o d \o x[2] :
        x \in {<<<<>>, <<>>>>,
               <<<<BadEntry>>, <<Cond("Progressing", "True", "r1", "m1")>>>>},
        r \in Opt(CondsOf("Ready")), d \in Opt(CondsOf("Degraded"))}

\* What client.Resource(gvr).Get returns: an error, or an object.  The
\* shape of an object says what it holds at status.conditions: nothing
\* ("absent"), a list ("list"), the string "oops" ("other"), or nothing
\* reachable because status itself is the string "oops" ("status").
Object(f, sh, c) == [failed |-> f, shape |-> sh, conditions |-> c]
GetErr == Object(TRUE, "absent", <<>>)
GetResults ==
    {GetErr, Object(FALSE, "absent", <<>>), Object(FALSE, "other", <<>>),
     Object(FALSE, "status", <<>>)}
      \cup {Object(FALSE, "list", c) : c \in ConditionLists}

\* What NestedSlice returns; msg is the text of its error.
Slice(c, f, e, m) == [conds |-> c, found |-> f, err |-> e, msg |-> m]

\* Faulty variant of NestedSlice: a field that is not a list counts as absent.
NestedSliceLenient(u) ==
    IF u.shape = "list"
    THEN Slice(u.conditions, TRUE, FALSE, "")
    ELSE Slice(<<>>, FALSE, FALSE, "")

\* unstructured.NestedSlice(u.Object, "status", "conditions"): found is false
\* when the field is absent; err is set, with the accessor's text, when the
\* field is not a list or status is not a map.
NestedSlice(u) ==
    IF u.shape = "absent" THEN Slice(<<>>, FALSE, FALSE, "")
    ELSE IF u.shape = "other"
         THEN Slice(<<>>, FALSE, TRUE,
                    ".status.conditions accessor error: oops is of the type "
                      \o "string, expected []interface{}")
    ELSE IF u.shape = "status"
         THEN Slice(<<>>, FALSE, TRUE,
                    ".status.conditions accessor error: oops is of the type "
                      \o "string, expected map[string]interface{}")
    ELSE Slice(u.conditions, TRUE, FALSE, "")

(***************************************************************************)
(* Errors.  Every error is a record of the same shape; kind names the      *)
(* sentinel or the fmt.Errorf site that made it, msg is its text.          *)
(***************************************************************************)
Error(k, m) == [kind |-> k, msg |-> m]
NoErr == Error("nil", "")
Canceled == Error("context.Canceled", "context canceled")
DeadlineExceeded == Error("context.DeadlineExceeded", "context deadline exceeded")

\* wait.Interrupted(err)
Interrupted(e) == e.kind \in {"context.Canceled", "context.DeadlineExceeded"}

\* What a probe closure hands back to the poll loop, with the accumulators
\* it leaves behind (the closure's captured variables).
Outcome(d, e, r, g) == [done |-> d, err |-> e, ready |-> r, degraded |-> g]

(***************************************************************************)
(* WaitForESOResourceReady: the probe closure.                             *)
(***************************************************************************)
\* The for loop of the probe from entry i on: true at the first map entry
\* of type Ready whose status is "True".
RECURSIVE ReadyIsTrue(_, _)
ReadyIsTrue(conds, i) ==
    IF i > Len(conds) THEN FALSE
    ELSE IF conds[i].shape # "map" THEN ReadyIsTrue(conds, i + 1)
    ELSE IF conds[i].type = "Ready" /\ conds[i].status = "True" THEN TRUE
    ELSE ReadyIsTrue(conds, i + 1)

\* Faulty variant of ProbeESO: an unreadable conditions field ends the wait.
ProbeESOFatalExtract(u) ==
    IF u.failed THEN Outcome(FALSE, NoErr, NilMap, NilMap)
    ELSE LET ns == NestedSlice(u) IN
         IF ns.err
         THEN Outcome(FALSE, Error("extract", "failed to extract conditions"),
                      NilMap, NilMap)
         ELSE IF ~ns.found THEN Outcome(FALSE, NoErr, NilMap, NilMap)
         ELSE Outcome(ReadyIsTrue(ns.conds, 1), NoErr, NilMap, NilMap)

\* The probe: a failed Get, a conditions field that is absent or not a list
\* and a list without Ready "True" all report not-done without an error.
ProbeESO(u) ==
    IF u.failed THEN Outcome(FALSE, NoErr, NilMap, NilMap)
    ELSE LET ns == NestedSlice(u) IN
         IF ns.err \/ ~ns.found THEN Outcome(FALSE, NoErr, NilMap, NilMap)
         ELSE Outcome(ReadyIsTrue(ns.conds, 1), NoErr, NilMap, NilMap)

(***************************************************************************)
(* WaitForExternalSecretsConfigReady: the probe closure and the error      *)
(* the function returns.                                                   *)
(***************************************************************************)
\* Faulty variant of UpdateLast: a new condition is merged into the
\* retained one field by field, a missing field keeping the old value.
Merge(old, new) ==
    Entry("map", new.type,
          IF new.status = Nil THEN old.status ELSE new.status,
          IF new.reason = Nil THEN old.reason ELSE new.reason,
          IF new.message = Nil THEN old.message ELSE new.message)
RECURSIVE UpdateLastMerge(_, _, _, _)
UpdateLastMerge(conds, i, r, g) ==
    IF i > Len(conds) THEN [ready |-> r, degraded |-> g]
    ELSE IF conds[i].shape # "map" THEN UpdateLastMerge(conds, i + 1, r, g)
    ELSE IF conds[i].type = "Ready"
         THEN UpdateLastMerge(conds, i + 1, Merge(r, conds[i]), g)
    ELSE IF conds[i].type = "Degraded"
         THEN UpdateLastMerge(conds, i + 1, r, Merge(g, conds[i]))
    ELSE UpdateLastMerge(conds, i + 1, r, g)

\* Faulty variant of UpdateLast: an entry that is not a map ends the loop.
RECURSIVE UpdateLastStopAtBad(_, _, _, _)
UpdateLastStopAtBad(conds, i, r, g) ==
    IF i > Len(conds) THEN [ready |-> r, degraded |-> g]
    ELSE IF conds[i].shape # "map" THEN [ready |-> r, degraded |-> g]
    ELSE IF conds[i].type = "Ready"
         THEN UpdateLastStopAtBad(conds, i + 1, conds[i], g)
    ELSE IF conds[i].type = "Degraded"
         THEN UpdateLastStopAtBad(conds, i + 1, r, conds[i])
    ELSE UpdateLastStopAtBad(conds, i + 1, r, g)

\* Faulty variant of UpdateLast: a retained condition is never replaced.
RECURSIVE UpdateLastKeepFirst(_, _, _, _)
UpdateLastKeepFirst(conds, i, r, g) ==
    IF i > Len(conds) THEN [ready |-> r, degraded |-> g]
    ELSE IF conds[i].shape # "map" THEN UpdateLastKeepFirst(conds, i + 1, r, g)
    ELSE IF conds[i].type = "Ready"
         THEN UpdateLastKeepFirst(conds, i + 1,
                                  IF r = NilMap THEN conds[i] ELSE r, g)
    ELSE IF conds[i].type = "Degraded"
         THEN UpdateLastKeepFirst(conds, i + 1, r,
                                  IF g = NilMap THEN conds[i] ELSE g)
    ELSE UpdateLastKeepFirst(conds, i + 1, r, g)

\* The for loop of the probe from entry i on: each map entry of type Ready
\* (Degraded) replaces lastReadyCondition (lastDegradedCondition).
RECURSIVE UpdateLast(_, _, _, _)
UpdateLast(conds, i, r, g) ==
    IF i > Len(conds) THEN [ready |-> r, degraded |-> g]
    ELSE IF conds[i].shape # "map" THEN UpdateLast(conds, i + 1, r, g)
    ELSE IF conds[i].type = "Ready" THEN UpdateLast(conds, i + 1, conds[i], g)
    ELSE IF conds[i].type = "Degraded" THEN UpdateLast(conds, i + 1, r, conds[i])
    ELSE UpdateLast(conds, i + 1, r, g)

DegradedError(g) ==
    Error("degraded", "ExternalSecretsConfig cluster is degraded: " \o g.message)

\* fmt.Errorf("failed to extract conditions from ExternalSecretsConfig: %w",
\* err): the text of the extractor's error follows the prefix.
ExtractError(cause) ==
    Error("extract",
          "failed to extract conditions from ExternalSecretsConfig: " \o cause)

\* Faulty variant of Decide: the presence of Degraded is not required.
DecideNoGate(r, g) ==
    IF r = NilMap THEN Outcome(FALSE, NoErr, r, g)
    ELSE IF g.status = "True" THEN Outcome(FALSE, DegradedError(g), r, g)
    ELSE Outcome(r.status = "True", NoErr, r, g)

\* Faulty variant of Decide: any Ready status but "False" counts as ready.
DecideNotFalse(r, g) ==
    IF r = NilMap \/ g = NilMap THEN Outcome(FALSE, NoErr, r, g)
    ELSE IF g.status = "True" THEN Outcome(FALSE, DegradedError(g), r, g)
    ELSE Outcome(r.status # "False", NoErr, r, g)

\* Faulty variant of Decide: Ready is looked at before Degraded.
DecideReadyFirst(r, g) ==
    IF r = NilMap \/ g = NilMap THEN Outcome(FALSE, NoErr, r, g)
    ELSE IF r.status = "True" THEN Outcome(TRUE, NoErr, r, g)
    ELSE IF g.status = "True" THEN Outcome(FALSE, DegradedError(g), r, g)
    ELSE Outcome(FALSE, NoErr, r, g)

\* The checks after the loop: both present, fail fast, then Ready's value.
Decide(r, g) ==
    IF r = NilMap \/ g = NilMap THEN Outcome(FALSE, NoErr, r, g)
    ELSE IF g.status = "True" THEN Outcome(FALSE, DegradedError(g), r, g)
    ELSE Outcome(r.status = "True", NoErr, r, g)

\* Faulty variant of ProbeESC: a failed Get ends the wait.
ProbeESCFatalGet(u, r, g) ==
    IF u.failed THEN Outcome(FALSE, Error("get", "get failed"), r, g)
    ELSE LET ns == NestedSlice(u) IN
         IF ns.err THEN Outcome(FALSE, ExtractError(ns.msg), r, g)
         ELSE IF ~ns.found THEN Outcome(FALSE, NoErr, r, g)
         ELSE LET acc == UpdateLast(ns.conds, 1, r, g)
              IN  Decide(acc.ready, acc.degraded)

ProbeESC(u, r, g) ==
    IF u.failed THEN Outcome(FALSE, NoErr, r, g)
    ELSE LET ns == NestedSlice(u) IN
         IF ns.err THEN Outcome(FALSE, ExtractError(ns.msg), r, g)
         ELSE IF ~ns.found THEN Outcome(FALSE, NoErr, r, g)
         ELSE LET acc == UpdateLast(ns.conds, 1, r, g)
              IN  Decide(acc.ready, acc.degraded)

\* fmt.Sprintf("%v (reason: %v, message: %v)", ...) of a retained condition,
\* "not set" for a nil one.
StatusText(c) ==
    IF c = NilMap THEN "not set"
    ELSE c.status \o " (reason: " \o c.reason \o ", message: " \o c.message \o ")"

\* Faulty variant of TimeoutError: the two conditions change places.
TimeoutErrorSwapped(r, g) ==
    Error("timeout",
          "timeout waiting for ExternalSecretsConfig cluster to be ready: Ready="
            \o StatusText(g) \o ", Degraded=" \o StatusText(r))

TimeoutError(r, g) ==
    Error("timeout",
          "timeout waiting for ExternalSecretsConfig cluster to be ready: Ready="
            \o StatusText(r) \o ", Degraded=" \o StatusText(g))

\* The tail of WaitForExternalSecretsConfigReady: what it returns for the
\* error e of the poll loop.
ReturnESC(e, r, g) ==
    IF e # NoErr /\ Interrupted(e) THEN TimeoutError(r, g) ELSE e

(***************************************************************************)
(* VerifyPodsReadyByPrefix: the pods, the probe closure.                   *)
(* A pod name and a prefix are sequences of characters.                    *)
(***************************************************************************)
PodCondition(t, s) == [type |-> t, status |-> s]
Pod(n, ph, cs) == [name |-> n, phase |-> ph, conditions |-> cs]

\* The loop of isPodReady from condition i on: rdy and crdy are
\* ready["Ready"] and ready["ContainersReady"].
RECURSIVE ReadyFlags(_, _, _, _)
ReadyFlags(cs, i, rdy, crdy) ==
    IF i > Len(cs) THEN rdy /\ crdy
    ELSE IF cs[i].type = "Ready" /\ cs[i].status = "True"
         THEN ReadyFlags(cs, i + 1, TRUE, crdy)
    ELSE IF cs[i].type = "ContainersReady" /\ cs[i].status = "True"
         THEN ReadyFlags(cs, i + 1, rdy, TRUE)
    ELSE ReadyFlags(cs, i + 1, rdy, crdy)

\* Faulty variant of isPodReady: ContainersReady is not looked at.
isPodReadyOnly(pod) == ReadyFlags(pod.conditions, 1, FALSE, TRUE)

\* isPodReady: both flags start false and are only ever set.
isPodReady(pod) == ReadyFlags(pod.conditions, 1, FALSE, FALSE)

\* The keys of the map matched as the latest probe that listed pods left
\* it.  The map is a local of the probe closure; the variable only records it.
VARIABLE matched

\* Faulty variant of FreshMatched: the map outlives the tick.
StaleMatched == matched

\* "matched := map[string]*corev1.Pod{}": every tick starts from an empty map.
FreshMatched == {}

\* strings.HasPrefix(s, prefix)
HasPrefix(str, prefix) ==
    /\ Len(prefix) <= Len(str)
    /\ SubSeq(str, 1, Len(prefix)) = prefix

\* The double loop over podList.Items and prefixes from item i on: m holds
\* the keys of matched so far.
RECURSIVE BuildMatched(_, _, _, _)
BuildMatched(m, items, i, pfx) ==
    IF i > Len(items) THEN m
    ELSE IF \E k \in 1..Len(pfx) : HasPrefix(items[i].name, pfx[k])
         THEN BuildMatched(m \cup {items[i].name}, items, i + 1, pfx)
    ELSE BuildMatched(m, items, i + 1, pfx)

\* The keys of the map matched after the double loop.
MatchedNames(items, pfx) == BuildMatched(FreshMatched, items, 1, pfx)

\* The listing holds a pod of that name.
IsListed(items, name) == \E i \in 1..Len(items) : items[i].name = name

\* matched[name]: the pod stored last under that name (each iteration of
\* the range loop has its own pod variable).
MatchedPod(items, name) ==
    LET last == CHOOSE i \in 1..Len(items) :
                    /\ items[i].name = name
                    /\ \A j \in 1..Len(items) : items[j].name = name => j <= i
    IN  items[last]

ListError == Error("list", "pods list failed")

\* What clientset.CoreV1().Pods(namespace).List returns.
PodList(f, its) == [failed |-> f, items |-> its]

\* Faulty variant of ProbePods: more matched pods than prefixes pass the
\* length check.
ProbePodsAtLeast(l, pfx) ==
    IF l.failed THEN Outcome(FALSE, ListError, NilMap, NilMap)
    ELSE LET m == MatchedNames(l.items, pfx) IN
         IF Cardinality(m) < Len(pfx)
         THEN Outcome(FALSE, NoErr, NilMap, NilMap)
         ELSE IF \E n \in m :
                    /\ IsListed(l.items, n)
                    /\ \/ MatchedPod(l.items, n).phase # "Running"
                       \/ ~isPodReady(MatchedPod(l.items, n))
         THEN Outcome(FALSE, NoErr, NilMap, NilMap)
         ELSE Outcome(TRUE, NoErr, NilMap, NilMap)

\* The probe: list, build matched, compare its length with the number of
\* prefixes, then look at every pod stored in it.
ProbePods(l, pfx) ==
    IF l.failed THEN Outcome(FALSE, ListError, NilMap, NilMap)
    ELSE LET m == MatchedNames(l.items, pfx) IN
         IF Cardinality(m) # Len(pfx)
         THEN Outcome(FALSE, NoErr, NilMap, NilMap)
         ELSE IF \E n \in m :
                    /\ IsListed(l.items, n)
                    /\ \/ MatchedPod(l.items, n).phase # "Running"
                       \/ ~isPodReady(MatchedPod(l.items, n))
         THEN Outcome(FALSE, NoErr, NilMap, NilMap)
         ELSE Outcome(TRUE, NoErr, NilMap, NilMap)

\* The pods a listing may hold, in name order, each name at most once.
PodNames == <<<<"a", "1">>, <<"a", "2">>, <<"b", "1">>, <<"c", "1">>>>
PodShapes ==
    {<<"Running", <<PodCondition("Ready", "True"),
                    PodCondition("ContainersReady", "True")>>>>,
     <<"Pending", <<PodCondition("Ready", "True"),
                    PodCondition("ContainersReady", "True")>>>>,
     <<"Running", <<PodCondition("Ready", "True"),
                    PodCondition("ContainersReady", "False")>>>>,
     <<"Running", <<PodCondition("ContainersReady", "True")>>>>}

RECURSIVE Listings(_)
Listings(i) ==
    IF i > Len(PodNames) THEN {<<>>}
    ELSE LET rest == Listings(i + 1) IN
         rest \cup {<<Pod(PodNames[i], sh[1], sh[2])>> \o r :
                        sh \in PodShapes, r \in rest}

ListResults == {PodList(TRUE, <<>>)} \cup {PodList(FALSE, l) : l \in Listings(1)}

\* The prefixes argument a caller passes.
PrefixLists == {<<<<"a">>, <<"b">>>>, <<<<"a">>>>}

(***************************************************************************)
(* One wait call.                                                          *)
(***************************************************************************)
VARIABLES
    waiter,                 \* "pods", "eso" or "esc": the function called
    timeout,                \* the deadline, in seconds after the call
    prefixes,               \* the prefixes argument (pods)
    pc,                     \* "probe": about to run the probe; "select":
                            \* blocked between ticks; "done": returned
    now,                    \* seconds since the call
    nextTick,               \* when the ticker fires next
    cancelled,              \* the caller's context is cancelled
    lastReadyCondition,     \* the accumulators of the esc waiter
    lastDegradedCondition,
    err,                    \* what PollUntilContextTimeout returned
    result,                 \* what the waiter returned
    probes,                 \* probe invocations so far
    fetched,                \* what Get returned to the probe that just ran
    listed,                 \* what List returned to the probe that just ran
    \* History of the call, read by the properties only.
    observed,               \* per type, the condition reported last
    degradedTrueSeen,       \* some fetched snapshot had Degraded "True"
    fetchFailures,          \* probes whose Get or List failed
    cancelledIn,            \* pc when the context was cancelled
    cancelledAt,            \* now when the context was cancelled
    probesAfterCancel,      \* probes run after the cancellation
    followed,               \* per scenario, how many ticks matched it
    dropped,                \* the latest listing lacks a pod that the
                            \* listing before it had matched
    steady,                 \* every listing so far had a pod for every
                            \* prefix and only healthy matching pods
    \* Several wait calls running at once.
    calls,                  \* per call: its poll loop and what it returned
    cells,                  \* per call frame: the probe's captured variables
    writer,                 \* per frame: the call that wrote it last
    clock                   \* seconds since the first call

vars == <<waiter, timeout, prefixes, pc, now, nextTick, cancelled,
          lastReadyCondition, lastDegradedCondition, err, result, probes,
          fetched, listed, observed, degradedTrueSeen, fetchFailures,
          cancelledIn, cancelledAt, probesAfterCancel, followed, matched,
          dropped, steady, calls, cells, writer, clock>>

podHistory == <<matched, dropped, steady>>

\* The variables of the calls running at once.
concurrent == <<calls, cells, writer, clock>>

\* The variables of the single call.
single == <<waiter, timeout, prefixes, pc, now, nextTick, cancelled,
            lastReadyCondition, lastDegradedCondition, err, result, probes,
            fetched, listed, observed, degradedTrueSeen, fetchFailures,
            cancelledIn, cancelledAt, probesAfterCancel, followed, matched,
            dropped, steady>>

NoFetch == Object(FALSE, "none", <<>>)
NoList == PodList(FALSE, <<Pod(<<>>, "none", <<>>)>>)

\* The two example runs of the convergence waiter, tick by tick.
Snapshot(c) == Object(FALSE, "list", c)
ScenarioConverges ==
    <<Snapshot(<<>>),
      Snapshot(<<Cond("Ready", "Unknown", "r1", "m1")>>),
      Snapshot(<<Cond("Ready", "False", "r1", "m1"),
                 Cond("Degraded", "False", "r1", "m1")>>),
      Snapshot(<<Cond("Ready", "True", "r1", "m1"),
                 Cond("Degraded", "False", "r1", "m1")>>)>>
ScenarioVeto ==
    <<Snapshot(<<Cond("Ready", "True", "r1", "m1")>>),
      Snapshot(<<Cond("Ready", "True", "r1", "m1"),
                 Cond("Degraded", "True", "r2", "m2")>>)>>

\* The ticks of scenario sc matched so far, n of them, after fetch u.
Follow(sc, n, u) ==
    IF n = probes /\ n < Len(sc) /\ sc[n + 1] = u THEN n + 1 ELSE n

\* Snapshot u reports a condition of type t.
Reports(u, t) ==
    /\ ~u.failed
    /\ u.shape = "list"
    /\ \E i \in 1..Len(u.conditions) :
          u.conditions[i].shape = "map" /\ u.conditions[i].type = t

\* The condition of type t that snapshot u reports.
Reported(u, t) ==
    LET idx == {i \in 1..Len(u.conditions) :
                   u.conditions[i].shape = "map" /\ u.conditions[i].type = t}
    IN  u.conditions[CHOOSE i \in idx : \A j \in idx : j <= i]

\* The pod is healthy: Running, Ready and ContainersReady both "True".
Healthy(pod) ==
    /\ pod.phase = "Running"
    /\ \E i \in 1..Len(pod.conditions) :
          pod.conditions[i] = PodCondition("Ready", "True")
    /\ \E i \in 1..Len(pod.conditions) :
          pod.conditions[i] = PodCondition("ContainersReady", "True")

\* The pods of a listing whose name starts with prefix p.
Matching(items, p) ==
    {i \in 1..Len(items) :
        /\ Len(p) <= Len(items[i].name)
        /\ \A c \in 1..Len(p) : items[i].name[c] = p[c]}

\* The pods of a listing whose name starts with one of the prefixes.
MatchingAny(items) ==
    UNION {Matching(items, prefixes[k]) : k \in 1..Len(prefixes)}

\* Every prefix has a pod in the listing and every matching pod is healthy.
CoveredAndHealthy(items) ==
    /\ \A k \in 1..Len(prefixes) : Matching(items, prefixes[k]) # {}
    /\ \A i \in MatchingAny(items) : Healthy(items[i])

\* Faulty variant of FirstStep: immediate is false, the loop sleeps first.
FirstStepSleep == "select"

\* The immediate argument of PollUntilContextTimeout is true in all three
\* waiters: the loop starts with a probe.
FirstStep == "probe"

InitCall ==
    /\ waiter \in {"pods", "eso", "esc"}
    /\ timeout \in (IF waiter = "pods" THEN {PodsTimeout} ELSE Timeouts)
    /\ prefixes \in (IF waiter = "pods" THEN PrefixLists ELSE {<<>>})
    /\ pc = FirstStep
    /\ now = 0
    /\ nextTick = PollInterval
    /\ cancelled = FALSE
    /\ lastReadyCondition = NilMap
    /\ lastDegradedCondition = NilMap
    /\ err = NoErr
    /\ result = NoErr
    /\ probes = 0
    /\ fetched = NoFetch
    /\ listed = NoList
    /\ observed = [ready |-> NilMap, degraded |-> NilMap]
    /\ degradedTrueSeen = FALSE
    /\ fetchFailures = 0
    /\ cancelledIn = "never"
    /\ cancelledAt = 0
    /\ probesAfterCancel = 0
    /\ followed = [converges |-> 0, veto |-> 0]
    /\ matched = {}
    /\ dropped = FALSE
    /\ steady = TRUE

\* One call alone: no further call is running.
Init ==
    /\ InitCall
    /\ calls = <<>>
    /\ cells = <<>>
    /\ writer = <<>>
    /\ clock = 0

(***************************************************************************)
(* wait.PollUntilContextTimeout(ctx, 5*time.Second, timeout, true, probe)  *)
(***************************************************************************)
\* Faulty variant of DoneChReady: the deadline does not wake the select.
DoneChReadyCancelOnly == cancelled

\* Faulty variant of DoneChReady: a cancellation does not wake the select.
DoneChReadyDeadlineOnly == now >= timeout

\* <-ctx.Done() of the deadline context can be received.
DoneChReady == cancelled \/ now >= timeout

\* <-t.C() of the ticker can be received.
TimeChReady == now >= nextTick

\* The values ctx.Err() may have.  On the deadline itself the deadline's
\* timer and the ticker race; a cancellation in the second of the deadline
\* races with the deadline's timer, and the cause that came first stays.
CtxErrs ==
    IF cancelled
    THEN IF now >= timeout THEN {Canceled, DeadlineExceeded} ELSE {Canceled}
    ELSE IF now > timeout THEN {DeadlineExceeded}
    ELSE IF now = timeout THEN {DeadlineExceeded, NoErr}
    ELSE {NoErr}

\* The error the waiter returns for the poll loop's error e.
\* r and g are the accumulators at that point.
Return(e, r, g) ==
    IF waiter = "esc" THEN ReturnESC(e, r, g) ELSE e

\* Faulty variant of Finish: the loop records e and goes on polling.
FinishAndGoOn(e, r, g) ==
    /\ pc' = "select"
    /\ err' = e
    /\ result' = Return(e, r, g)

\* The poll loop returns e.
Finish(e, r, g) ==
    /\ pc' = "done"
    /\ err' = e
    /\ result' = Return(e, r, g)

\* "if ok, err := condition(ctx); err != nil || ok { return err }"
AfterProbe(o) ==
    /\ lastReadyCondition' = o.ready
    /\ lastDegradedCondition' = o.degraded
    /\ IF o.err # NoErr \/ o.done
       THEN Finish(o.err, o.ready, o.degraded)
       ELSE pc' = "select" /\ UNCHANGED <<err, result>>
    /\ probes' = probes + 1
    /\ probesAfterCancel' = probesAfterCancel + (IF cancelled THEN 1 ELSE 0)
    /\ UNCHANGED <<waiter, timeout, prefixes, now, nextTick, cancelled,
                   cancelledIn, cancelledAt>>

\* One probe of WaitForExternalSecretsConfigReady.
ProbeConfig ==
    /\ pc = "probe"
    /\ waiter = "esc"
    /\ \E u \in GetResults :
          /\ fetched' = u
          /\ AfterProbe(ProbeESC(u, lastReadyCondition, lastDegradedCondition))
          /\ observed' =
               [ready |-> IF Reports(u, "Ready") THEN Reported(u, "Ready")
                          ELSE observed.ready,
                degraded |-> IF Reports(u, "Degraded")
                             THEN Reported(u, "Degraded")
                             ELSE observed.degraded]
          /\ degradedTrueSeen' =
               (degradedTrueSeen \/
                  (Reports(u, "Degraded") /\ Reported(u, "Degraded").status = "True"))
          /\ fetchFailures' = fetchFailures + (IF u.failed THEN 1 ELSE 0)
          /\ followed' = [converges |-> Follow(ScenarioConverges, followed.converges, u),
                          veto |-> Follow(ScenarioVeto, followed.veto, u)]
    /\ UNCHANGED <<listed, podHistory, concurrent>>

\* One probe of WaitForESOResourceReady.
ProbeResource ==
    /\ pc = "probe"
    /\ waiter = "eso"
    /\ \E u \in GetResults :
          /\ fetched' = u
          /\ AfterProbe(ProbeESO(u))
          /\ fetchFailures' = fetchFailures + (IF u.failed THEN 1 ELSE 0)
    /\ UNCHANGED <<listed, observed, degradedTrueSeen, followed, podHistory,
                   concurrent>>

\* One probe of VerifyPodsReadyByPrefix.
ProbePodList ==
    /\ pc = "probe"
    /\ waiter = "pods"
    /\ \E l \in ListResults :
          /\ listed' = l
          /\ AfterProbe(ProbePods(l, prefixes))
          /\ matched' = IF l.failed THEN matched
                        ELSE MatchedNames(l.items, prefixes)
          /\ fetchFailures' = fetchFailures + (IF l.failed THEN 1 ELSE 0)
          /\ dropped' = (~l.failed /\ \E n \in matched :
                                        \A i \in 1..Len(l.items) : l.items[i].name # n)
          /\ steady' = (steady /\ ~l.failed /\ CoveredAndHealthy(l.items))
    /\ UNCHANGED <<fetched, observed, degradedTrueSeen, followed, concurrent>>

\* The select of the loop receives from ctx.Done(): return ctx.Err().
ContextDone ==
    /\ pc = "select"
    /\ DoneChReady
    /\ \E e \in CtxErrs \ {NoErr} :
          Finish(e, lastReadyCondition, lastDegradedCondition)
    /\ fetched' = NoFetch
    /\ listed' = NoList
    /\ UNCHANGED <<waiter, timeout, prefixes, now, nextTick, cancelled,
                   lastReadyCondition, lastDegradedCondition, probes,
                   observed, degradedTrueSeen, fetchFailures, cancelledIn,
                   cancelledAt, probesAfterCancel, followed, podHistory,
                   concurrent>>

\* The select receives from the ticker; ctx.Err() is checked again before
\* the probe is run.
TimerFires ==
    /\ pc = "select"
    /\ TimeChReady
    /\ \E e \in CtxErrs :
          IF e # NoErr
          THEN /\ Finish(e, lastReadyCondition, lastDegradedCondition)
               /\ UNCHANGED nextTick
          ELSE /\ pc' = "probe"
               /\ nextTick' = nextTick + PollInterval
               /\ UNCHANGED <<err, result>>
    /\ fetched' = NoFetch
    /\ listed' = NoList
    /\ UNCHANGED <<waiter, timeout, prefixes, now, cancelled,
                   lastReadyCondition, lastDegradedCondition, probes,
                   observed, degradedTrueSeen, fetchFailures, cancelledIn,
                   cancelledAt, probesAfterCancel, followed, podHistory,
                   concurrent>>

\* A second passes while the loop is blocked in the select.
TimePasses ==
    /\ pc = "select"
    /\ ~DoneChReady
    /\ ~TimeChReady
    /\ now' = now + 1
    /\ fetched' = NoFetch
    /\ listed' = NoList
    /\ UNCHANGED <<waiter, timeout, prefixes, pc, nextTick, cancelled,
                   lastReadyCondition, lastDegradedCondition, err, result,
                   probes, observed, degradedTrueSeen, fetchFailures,
                   cancelledIn, cancelledAt, probesAfterCancel, followed,
                   podHistory, concurrent>>

\* The caller cancels ctx.
Cancel ==
    /\ pc # "done"
    /\ ~cancelled
    /\ cancelled' = TRUE
    /\ cancelledIn' = pc
    /\ cancelledAt' = now
    /\ UNCHANGED <<waiter, timeout, prefixes, pc, now, nextTick,
                   lastReadyCondition, lastDegradedCondition, err, result,
                   probes, fetched, listed, observed, degradedTrueSeen,
                   fetchFailures, probesAfterCancel, followed, podHistory,
                   concurrent>>

Next ==
    \/ ProbeConfig
    \/ ProbeResource
    \/ ProbePodList
    \/ ContextDone
    \/ TimerFires
    \/ TimePasses
    \/ Cancel

Spec == Init /\ [][Next]_vars

\* The steps of the call itself: a probe returns, the select wakes up, time
\* moves on.  Only the caller's cancellation may never come.
Progress ==
    \/ ProbeConfig
    \/ ProbeResource
    \/ ProbePodList
    \/ ContextDone
    \/ TimerFires
    \/ TimePasses

FairSpec == Init /\ [][Next]_vars /\ WF_vars(Progress)

(***************************************************************************)
(* Several wait calls at once.  Each call has its own context, ticker and  *)
(* frame; the probe closure of a call captures the variables of its own    *)
(* frame.  All pods calls are given the same prefixes.                     *)
(***************************************************************************)
ConcTimeout == 11
Calls == {1, 2}
Starts == {0, 2}

\* The snapshots and listings the accessors return to the calls.
ConcSnapshots ==
    {GetErr,
     Snapshot(<<Cond("Ready", "True", "r1", "m1")>>),
     Snapshot(<<Cond("Degraded", "False", "r1", "m1")>>),
     Snapshot(<<Cond("Ready", "False", "r2", "m2"),
                Cond("Degraded", "False", "r1", "m1")>>),
     Snapshot(<<Cond("Degraded", "True", "r2", "m2")>>)}

HealthyPod(n) ==
    Pod(n, "Running", <<PodCondition("Ready", "True"),
                        PodCondition("ContainersReady", "True")>>)

ConcListings ==
    {PodList(TRUE, <<>>),
     PodList(FALSE, <<>>),
     PodList(FALSE, <<HealthyPod(PodNames[1])>>),
     PodList(FALSE, <<HealthyPod(PodNames[1]), HealthyPod(PodNames[3])>>),
     PodList(FALSE, <<HealthyPod(PodNames[3]), HealthyPod(PodNames[4])>>)}

\* The frame of a call before its first probe.
Frame(r, g, m) == [ready |-> r, degraded |-> g, matched |-> m]
EmptyFrame == Frame(NilMap, NilMap, {})

\* Faulty variant of FrameOf: the captured variables are package-level.
FrameShared(c) == 1

\* "var lastReadyCondition, lastDegradedCondition" and "matched :=" are
\* declared in the body of the call: every call has a frame of its own.
FrameOf(c) == c

\* The frame the probe closure of call c reads and writes.
Acc(c) == cells[FrameOf(c)]

\* The deadline of call c: the timeout argument, or the two minutes of
\* VerifyPodsReadyByPrefix.
Deadline(c) ==
    calls[c].start + (IF calls[c].kind = "pods" THEN PodsTimeout ELSE ConcTimeout)

Call(k, st) ==
    [kind |-> k, start |-> st, pc |-> FirstStep, nextTick |-> st + PollInterval,
     err |-> NoErr, result |-> NoErr, probes |-> 0, hist |-> <<>>]

ConcInit ==
    /\ InitCall
    /\ waiter = "pods"
    /\ Len(prefixes) = 2
    /\ \E k1 \in {"esc", "pods"}, k2 \in {"esc", "pods"}, st \in Starts :
          calls = <<Call(k1, 0), Call(k2, st)>>
    /\ cells = [c \in Calls |-> EmptyFrame]
    /\ writer = [c \in Calls |-> 0]
    /\ clock = 0

\* The error call c returns for the poll loop's error e.
ConcReturn(c, e, r, g) ==
    IF calls[c].kind = "esc" THEN ReturnESC(e, r, g) ELSE e

\* Call c after its probe, given input u, handed back outcome o.
ConcAfterProbe(c, u, o) ==
    calls' = [calls EXCEPT ![c] =
        [kind |-> @.kind, start |-> @.start,
         pc |-> IF o.err # NoErr \/ o.done THEN "done" ELSE "select",
         nextTick |-> @.nextTick,
         err |-> IF o.err # NoErr \/ o.done THEN o.err ELSE @.err,
         result |-> IF o.err # NoErr \/ o.done
                    THEN ConcReturn(c, o.err, o.ready, o.degraded)
                    ELSE @.result,
         probes |-> @.probes + 1,
         hist |-> IF @.kind = "esc" THEN Append(@.hist, u) ELSE <<u>>]]

\* One probe of a WaitForExternalSecretsConfigReady call.
ConcProbeConfig(c) ==
    /\ calls[c].pc = "probe"
    /\ calls[c].kind = "esc"
    /\ clock >= calls[c].start
    /\ \E u \in ConcSnapshots :
          LET o == ProbeESC(u, Acc(c).ready, Acc(c).degraded) IN
          /\ ConcAfterProbe(c, u, o)
          /\ cells' = [cells EXCEPT ![FrameOf(c)] =
                          Frame(o.ready, o.degraded, @.matched)]
    /\ writer' = [writer EXCEPT ![FrameOf(c)] = c]
    /\ UNCHANGED <<clock, single>>

\* One probe of a VerifyPodsReadyByPrefix call.
ConcProbePodList(c) ==
    /\ calls[c].pc = "probe"
    /\ calls[c].kind = "pods"
    /\ clock >= calls[c].start
    /\ \E l \in ConcListings :
          /\ ConcAfterProbe(c, l, ProbePods(l, prefixes))
          /\ cells' = [cells EXCEPT ![FrameOf(c)] =
                          Frame(@.ready, @.degraded,
                                IF l.failed THEN @.matched
                                ELSE MatchedNames(l.items, prefixes))]
    /\ writer' = [writer EXCEPT ![FrameOf(c)] = c]
    /\ UNCHANGED <<clock, single>>

\* The poll loop of call c returns e.
ConcFinish(c, e) ==
    calls' = [calls EXCEPT ![c] =
        [@ EXCEPT !.pc = "done", !.err = e,
                  !.result = ConcReturn(c, e, Acc(c).ready, Acc(c).degraded)]]

\* The select of call c receives from ctx.Done().
ConcContextDone(c) ==
    /\ calls[c].pc = "select"
    /\ clock >= Deadline(c)
    /\ ConcFinish(c, DeadlineExceeded)
    /\ UNCHANGED <<cells, writer, clock, single>>

\* The select of call c receives from its ticker; ctx.Err() is checked
\* again before the probe is run.
ConcTimerFires(c) ==
    /\ calls[c].pc = "select"
    /\ clock >= calls[c].nextTick
    /\ \E e \in (IF clock >= Deadline(c) THEN {DeadlineExceeded, NoErr}
                  ELSE {NoErr}) :
          IF e # NoErr
          THEN ConcFinish(c, e)
          ELSE calls' = [calls EXCEPT ![c] =
                   [@ EXCEPT !.pc = "probe",
                             !.nextTick = @ + PollInterval]]
    /\ UNCHANGED <<cells, writer, clock, single>>

\* Call c has something to do now.
Runnable(c) ==
    \/ calls[c].pc = "probe" /\ clock >= calls[c].start
    \/ calls[c].pc = "select" /\ (clock >= Deadline(c) \/ clock >= calls[c].nextTick)

\* A second passes while every call still running is blocked.
ConcTimePasses ==
    /\ \E c \in Calls : calls[c].pc # "done"
    /\ \A c \in Calls : ~Runnable(c)
    /\ clock' = clock + 1
    /\ UNCHANGED <<calls, cells, writer, single>>

ConcNext ==
    \/ \E c \in Calls : ConcProbeConfig(c)
    \/ \E c \in Calls : ConcProbePodList(c)
    \/ \E c \in Calls : ConcContextDone(c)
    \/ \E c \in Calls : ConcTimerFires(c)
    \/ ConcTimePasses

ConcSpec == ConcInit /\ [][ConcNext]_vars

(***************************************************************************)
(* Properties.                                                             *)
(***************************************************************************)
Returned == pc = "done"
Succeeded == pc = "done" /\ result = NoErr

\* Snapshot u reports Degraded with status "True".
DegradedTrueIn(u) ==
    Reports(u, "Degraded") /\ Reported(u, "Degraded").status = "True"

\* C1: fail-fast veto.  Once a successfully fetched snapshot has reported
\* Degraded with status True, the convergence waiter does not return
\* success (it returns the "is degraded" failure), also when Ready had not
\* been observed at that tick.
FailFastVeto ==
    (waiter = "esc" /\ degradedTrueSeen /\ Returned) => result # NoErr

\* C2: both-observed gate.  The convergence waiter returns success only if
\* a Ready and a Degraded condition were each reported by some fetched
\* snapshot of this call; a call that never saw Degraded and hit no
\* malformed document ends in the timeout error.
BothObservedGate ==
    waiter = "esc" =>
      /\ Succeeded => observed.ready # NilMap /\ observed.degraded # NilMap
      /\ (Returned /\ observed.degraded = NilMap /\ err.kind # "extract")
            => result.kind = "timeout"

\* Ready was True on the last tick of a call that polled up to its deadline
\* and never saw Degraded: it ends in the timeout error.
BothObservedGateWitness ==
    /\ waiter = "esc"
    /\ Returned
    /\ ~cancelled
    /\ probes = (timeout \div PollInterval) + 1
    /\ fetchFailures = 0
    /\ observed.ready.status = "True"
    /\ observed.degraded = NilMap
    /\ result.kind = "timeout"

\* The accumulators hold a Ready with status True and a Degraded with a
\* status other than True.
Converged ==
    /\ lastReadyCondition # NilMap
    /\ lastReadyCondition.status = "True"
    /\ lastDegradedCondition # NilMap
    /\ lastDegradedCondition.status # "True"

\* C3: success rule.  The convergence waiter has returned success exactly
\* when the accumulators hold Ready=True and a Degraded that is not True, so
\* it succeeds at the first tick that leaves them so and at no earlier one;
\* on the run [empty, Ready:Unknown, Ready:False+Degraded:False,
\* Ready:True+Degraded:False] no probe of ticks 1-3 ends the wait and tick 4
\* returns success.
SuccessRule ==
    waiter = "esc" =>
      /\ Succeeded <=> Converged
      /\ (followed.converges = probes /\ probes < Len(ScenarioConverges) /\ Returned)
            => Interrupted(err)
      /\ (followed.converges = probes /\ probes = Len(ScenarioConverges))
            => Succeeded

SuccessRuleWitness ==
    /\ waiter = "esc"
    /\ followed.converges = Len(ScenarioConverges)
    /\ probes = Len(ScenarioConverges)
    /\ Succeeded

\* C4: same-snapshot veto.  A probe whose snapshot reports Degraded=True
\* while Ready has been reported (by it or an earlier snapshot) ends the
\* wait on that tick with the error carrying that condition's message, also
\* with Ready=True in the same snapshot; the run [Ready:True,
\* Ready:True+Degraded:True] fails on tick 2.
SameSnapshotVeto ==
    waiter = "esc" =>
      /\ (DegradedTrueIn(fetched) /\ observed.ready # NilMap)
            => /\ Returned
               /\ result.kind = "degraded"
               /\ result.msg = "ExternalSecretsConfig cluster is degraded: "
                                  \o Reported(fetched, "Degraded").message
      /\ (followed.veto = probes /\ probes = 1 /\ Returned) => Interrupted(err)
      /\ (followed.veto = probes /\ probes = Len(ScenarioVeto))
            => Returned /\ result.kind = "degraded"

SameSnapshotVetoWitness ==
    /\ waiter = "esc"
    /\ followed.veto = Len(ScenarioVeto)
    /\ probes = Len(ScenarioVeto)
    /\ Reported(fetched, "Ready").status = "True"
    /\ result = Error("degraded", "ExternalSecretsConfig cluster is degraded: m2")

\* The diagnostic text of a condition reported last, or of none.
Diagnostic(c) ==
    IF c = NilMap THEN "not set"
    ELSE c.status \o " (reason: " \o c.reason \o ", message: " \o c.message \o ")"

\* C5: timeout diagnostics.  When the deadline of the convergence waiter
\* elapses, the error returned is the timeout error, and it embeds, for
\* Ready and for Degraded each, the status, reason and message of the
\* condition of that type reported last, or "not set".
TimeoutDiagnostics ==
    (waiter = "esc" /\ Returned /\ err = DeadlineExceeded) =>
      /\ result.kind = "timeout"
      /\ result.msg =
           "timeout waiting for ExternalSecretsConfig cluster to be ready: Ready="
             \o Diagnostic(observed.ready) \o ", Degraded="
             \o Diagnostic(observed.degraded)

TimeoutDiagnosticsWitness ==
    /\ waiter = "esc"
    /\ Returned
    /\ err = DeadlineExceeded
    /\ observed.degraded = NilMap
    /\ result.msg =
         "timeout waiting for ExternalSecretsConfig cluster to be ready: Ready="
           \o "False (reason: r2, message: m2), Degraded=not set"

\* The snapshot the probe just fetched is a converged one for the waiter.
FetchedConverged ==
    /\ Reports(fetched, "Ready")
    /\ Reported(fetched, "Ready").status = "True"
    /\ waiter = "esc" =>
          /\ Reports(fetched, "Degraded")
          /\ Reported(fetched, "Degraded").status # "True"

\* C6: transient absorption.  In the single-condition and the convergence
\* waiter, while every tick so far had a failing fetch no probe has ended
\* the wait (only the context can), and the first fetch that does not fail,
\* if it returns a converged snapshot, makes the wait return success.
TransientAbsorption ==
    waiter \in {"eso", "esc"} =>
      /\ (fetchFailures = probes /\ Returned) => Interrupted(err)
      /\ (fetchFailures = probes - 1 /\ FetchedConverged) => Succeeded

TransientAbsorptionWitness ==
    /\ waiter = "esc"
    /\ probes = 3
    /\ fetchFailures = 2
    /\ FetchedConverged
    /\ Succeeded

\* C7: in all three waiters a tick whose Get or List fails leaves the wait
\* polling: the probe reports not-done without an error.
TransientNeverSurfaces ==
    (fetched.failed \/ listed.failed) => pc = "select" /\ result = NoErr

\* C8: a wait that ended because the caller cancelled the context returns
\* the cancellation cause, not a timeout error.
CancellationDistinct ==
    (Returned /\ err = Canceled) => result = Canceled

\* C9: deadline bound.  A wait never sleeps past its deadline, so it has
\* returned by timeout + interval, after at most timeout/interval + 1
\* probes.
DeadlineBound ==
    /\ now <= timeout
    /\ Returned => now <= timeout + PollInterval
    /\ probes <= (timeout \div PollInterval) + 1

DeadlineBoundWitness ==
    /\ Returned
    /\ err = DeadlineExceeded
    /\ now = timeout
    /\ probes = (timeout \div PollInterval) + 1

\* C10: cancellation promptness.  After a cancellation that arrives while
\* the loop sleeps between ticks no time passes and no probe runs before
\* the wait returns the context's error (the cancellation, or the deadline
\* if that came first in the same second); whenever the cancellation
\* arrives, at most one probe runs after it.
CancellationPromptness ==
    /\ probesAfterCancel <= 1
    /\ cancelledIn = "select" =>
          /\ now = cancelledAt
          /\ now <= nextTick
          /\ probesAfterCancel = 0
          /\ Returned => err \in {Canceled, DeadlineExceeded}
          /\ (Returned /\ now < timeout) => err = Canceled

CancellationPromptnessWitness ==
    /\ waiter = "eso"
    /\ cancelledIn = "select"
    /\ Returned
    /\ result = Canceled
    /\ probes = 2
    /\ nextTick - PollInterval < now
    /\ now < nextTick
    /\ now + PollInterval < timeout


\* The latest probe listed pods and the state still holds that listing.
Listed == waiter = "pods" /\ listed # NoList /\ ~listed.failed

\* No prefix is matched by more than one listed pod.
OnePerPrefix(items) ==
    \A k \in 1..Len(prefixes) : Cardinality(Matching(items, prefixes[k])) <= 1

\* C11: multi-entity cardinality.  With the prefixes a and b, a tick that
\* lists pods for a and none for b leaves the wait pending without an
\* error; the tick succeeds exactly when a and b each have a pod and every
\* matching pod is healthy; pods matching no prefix do not enter either
\* decision.
MultiEntityCardinality ==
    (Listed /\ Len(prefixes) = 2) =>
        /\ (Matching(listed.items, prefixes[1]) # {}
              /\ Matching(listed.items, prefixes[2]) = {})
               => pc = "select" /\ result = NoErr
        /\ Succeeded <=> CoveredAndHealthy(listed.items)
        /\ ~CoveredAndHealthy(listed.items) => pc = "select" /\ result = NoErr

\* C12: whenever the pods waiter returns success, the listing of that tick
\* has a pod for every prefix and every pod matching a prefix is healthy,
\* also when several pods match the same prefix.
SuccessCoversEveryPrefix ==
    (Listed /\ Succeeded) => CoveredAndHealthy(listed.items)

\* C13: whenever the convergence waiter returns success the retained
\* Degraded condition has status "False" and the retained Ready condition
\* has status "True".
SuccessMeansDegradedFalse ==
    (waiter = "esc" /\ Succeeded) =>
        /\ lastReadyCondition.status = "True"
        /\ lastDegradedCondition.status = "False"

\* Snapshot u holds a Ready condition with status "True".
ReadyTrueIn(u) ==
    /\ ~u.failed
    /\ u.shape = "list"
    /\ \E i \in 1..Len(u.conditions) :
          /\ u.conditions[i].shape = "map"
          /\ u.conditions[i].type = "Ready"
          /\ u.conditions[i].status = "True"

\* C14: the single-condition waiter.  A tick succeeds exactly when its
\* snapshot holds Ready with status "True"; every other tick (failed fetch,
\* conditions absent or not a list, no Ready, Ready not "True") leaves the
\* wait polling without an error; so the wait only ever returns success,
\* the deadline's error or the cancellation's.
SingleConditionRetries ==
    waiter = "eso" =>
        /\ Returned => result \in {NoErr, Canceled, DeadlineExceeded}
        /\ fetched # NoFetch =>
              /\ Succeeded <=> ReadyTrueIn(fetched)
              /\ ~ReadyTrueIn(fetched) => pc = "select" /\ result = NoErr

SingleConditionRetriesWitness ==
    /\ waiter = "eso"
    /\ probes = 3
    /\ fetchFailures = 1
    /\ ReadyTrueIn(fetched)
    /\ fetched.conditions[1] = BadEntry
    /\ Succeeded

\* C15: accumulator update.  After any tick the retained Ready (Degraded)
\* condition is, whole, the condition of that type in the most recent
\* successfully fetched snapshot that held one; a tick that fetched
\* nothing of that type leaves it as it was.
AccumulatorUpdate ==
    waiter = "esc" =>
        /\ lastReadyCondition = observed.ready
        /\ lastDegradedCondition = observed.degraded

AccumulatorUpdateWitness ==
    /\ waiter = "esc"
    /\ probes = 3
    /\ fetched = GetErr
    /\ pc = "select"
    /\ lastReadyCondition = Cond("Ready", Nil, Nil, Nil)
    /\ lastDegradedCondition = Cond("Degraded", "False", "r2", "m2")

\* C16 as stated: the convergence waiter returns success only on a tick
\* whose own snapshot holds Ready with status "True" and Degraded with a
\* status other than "True".
OwnSnapshotSuccess ==
    (waiter = "esc" /\ Succeeded) =>
        /\ Reports(fetched, "Ready")
        /\ Reported(fetched, "Ready").status = "True"
        /\ Reports(fetched, "Degraded")
        /\ Reported(fetched, "Degraded").status # "True"

\* C16 as amended: the convergence waiter returns success only on a tick
\* whose own snapshot holds Ready or Degraded, with the Ready it holds
\* "True" and the Degraded it holds not "True"; the value of a type the
\* snapshot lacks is the one most recently reported by an earlier snapshot,
\* which must be there, Ready "True" and Degraded not "True".
RetainedSuccess ==
    (waiter = "esc" /\ Succeeded) =>
        /\ Reports(fetched, "Ready") \/ Reports(fetched, "Degraded")
        /\ Reports(fetched, "Ready") =>
              Reported(fetched, "Ready").status = "True"
        /\ Reports(fetched, "Degraded") =>
              Reported(fetched, "Degraded").status # "True"
        /\ observed.ready # NilMap
        /\ observed.ready.status = "True"
        /\ observed.degraded # NilMap
        /\ observed.degraded.status # "True"

RetainedSuccessWitness ==
    /\ waiter = "esc"
    /\ Succeeded
    /\ probes = 2
    /\ Reports(fetched, "Degraded")
    /\ ~Reports(fetched, "Ready")
    /\ observed.ready.status = "True"

\* C17: a status.conditions field that is not a list (or a status that is
\* not a map) ends the convergence waiter on that tick with the "failed to
\* extract conditions" error, which carries the extractor's text, while the
\* single-condition waiter takes the same document as not ready and polls
\* on.
MalformedDocument ==
    (~fetched.failed /\ fetched.shape \in {"other", "status"}) =>
        /\ waiter = "esc" =>
              /\ Returned
              /\ result.kind = "extract"
              /\ result.msg =
                   "failed to extract conditions from ExternalSecretsConfig: "
                     \o ".status.conditions accessor error: oops is of the type "
                     \o "string, expected "
                     \o (IF fetched.shape = "other" THEN "[]interface{}"
                         ELSE "map[string]interface{}")
        /\ waiter = "eso" => pc = "select" /\ result = NoErr

MalformedDocumentWitness ==
    /\ waiter = "esc"
    /\ fetched.shape = "other"
    /\ probes = 2
    /\ now < timeout
    /\ Returned
    /\ result.kind = "extract"

\* The names of the listed pods that start with one of the prefixes.
MatchingNames(items) == {items[i].name : i \in MatchingAny(items)}

\* C18: a tick on which the number of distinct matching pods differs from
\* the number of prefixes, in either direction, neither succeeds nor fails:
\* the wait polls again.
CardinalityMismatchPending ==
    (Listed /\ Cardinality(MatchingNames(listed.items)) # Len(prefixes)) =>
        pc = "select" /\ result = NoErr

CardinalityMismatchPendingWitness ==
    /\ Listed
    /\ Cardinality(MatchingNames(listed.items)) > Len(prefixes)
    /\ \A i \in MatchingAny(listed.items) : Healthy(listed.items[i])
    /\ probes = 2
    /\ pc = "select"
    /\ result = NoErr

\* C19: many-to-one matching completeness.  A wait that was not cancelled
\* and whose every tick listed a pod for every prefix and only healthy
\* matching pods, several pods of one prefix included, has returned
\* success when it returns.
ManyToOneCompleteness ==
    (waiter = "pods" /\ Returned /\ probes >= 1 /\ steady /\ ~cancelled) =>
        Succeeded

\* The listing alone decides success: as many distinct matching pods as
\* prefixes, all of them healthy.
Quorum(items) ==
    /\ Cardinality(MatchingNames(items)) = Len(prefixes)
    /\ \A i \in MatchingAny(items) : Healthy(items[i])

\* C20: no carry-over.  After every tick that listed pods the matched set
\* holds the matching pods of that listing and no other, and the tick
\* succeeded exactly when that listing alone warrants it: a pod of an
\* earlier listing that is gone counts for nothing.
NoCarryOver ==
    Listed =>
        /\ matched = MatchingNames(listed.items)
        /\ Succeeded <=> Quorum(listed.items)

NoCarryOverWitness ==
    /\ Listed
    /\ Len(prefixes) = 2
    /\ dropped
    /\ probes = 2
    /\ Cardinality(matched) = 1
    /\ \A i \in MatchingAny(listed.items) : Healthy(listed.items[i])
    /\ pc = "select"
    /\ result = NoErr

\* C21: pod health predicate.  Whenever the pods waiter returns success,
\* every listed pod matching a prefix is Running and carries Ready "True"
\* and ContainersReady "True"; a matching pod that is not Running or lacks
\* either condition with status "True" keeps the wait pending.
PodHealthPredicate ==
    Listed =>
        /\ Succeeded => \A i \in MatchingAny(listed.items) :
                            Healthy(listed.items[i])
        /\ (\E i \in MatchingAny(listed.items) : ~Healthy(listed.items[i]))
              => pc = "select" /\ result = NoErr

PodHealthPredicateWitness ==
    /\ Listed
    /\ Len(prefixes) = 1
    /\ Len(listed.items) = 3
    /\ Cardinality(MatchingAny(listed.items)) = 1
    /\ \A i \in 1..Len(listed.items) :
          i \notin MatchingAny(listed.items) => ~Healthy(listed.items[i])
    /\ probes = 3
    /\ ~steady
    /\ Succeeded

\* The convergence waiter run alone on the snapshots hist from tick i on:
\* the outcome of its last probe, o being the outcome of the probe before.
RECURSIVE SoloESC(_, _, _)
SoloESC(hist, i, o) ==
    IF i > Len(hist) THEN o
    ELSE SoloESC(hist, i + 1, ProbeESC(hist[i], o.ready, o.degraded))

\* What call c would hold and return had it run alone on its own inputs.
SoloAgrees(c) ==
    LET k == calls[c] IN
    IF k.kind = "esc"
    THEN LET o == SoloESC(k.hist, 1, Outcome(FALSE, NoErr, NilMap, NilMap)) IN
         /\ Acc(c).ready = o.ready
         /\ Acc(c).degraded = o.degraded
         /\ k.pc # "done" => ~o.done /\ o.err = NoErr
         /\ k.pc = "done" =>
               k.result = (IF o.err # NoErr THEN o.err
                           ELSE IF o.done THEN NoErr
                           ELSE TimeoutError(o.ready, o.degraded))
    ELSE k.hist # <<>> =>
         LET l == k.hist[1] IN
         /\ ~l.failed => Acc(c).matched = MatchingNames(l.items)
         /\ k.pc # "done" => ~l.failed /\ ~Quorum(l.items)
         /\ k.pc = "done" =>
               k.result = (IF l.failed THEN ListError
                           ELSE IF Quorum(l.items) THEN NoErr
                           ELSE DeadlineExceeded)

\* C22: independence of concurrent waits.  However the ticks of the calls
\* interleave, the accumulators of each call (last Ready and Degraded, the
\* matched set) and what it returns are those of the same call run alone on
\* its own fetched inputs and deadline, and the frame of a call is written
\* by no other call.
ConcurrentIndependence ==
    \A c \in DOMAIN calls :
        /\ SoloAgrees(c)
        /\ writer[FrameOf(c)] \in {0, c}

ConcurrentIndependenceWitness ==
    /\ Len(calls) = 2
    /\ calls[1].kind = "esc" /\ calls[2].kind = "esc"
    /\ calls[2].start = 2
    /\ calls[1].pc = "done" /\ calls[2].pc = "done"
    /\ calls[1].probes = 3 /\ calls[2].probes = 2
    /\ calls[1].result.kind = "timeout"
    /\ calls[2].result = NoErr
    /\ cells[1].ready.status = "False"
    /\ cells[2].ready.status = "True"

\* What a waiter may return: success, a fatal probe error, the timeout
\* error, or the context's error.
Outcomes ==
    {"nil", "degraded", "extract", "list", "timeout",
     "context.Canceled", "context.DeadlineExceeded"}

\* C23: termination with a single outcome.  With probes that return and
\* time that moves on, every wait returns, with one of the outcomes; after
\* it has returned no probe runs and what it returned does not change.
Termination ==
    /\ <>Returned
    /\ [](Returned => result.kind \in Outcomes)
    /\ [][Returned => UNCHANGED <<pc, err, result, probes>>]_vars

TerminationWitness ==
    /\ waiter = "esc"
    /\ Returned
    /\ ~cancelled
    /\ now = timeout
    /\ probes = (timeout \div PollInterval) + 1
    /\ result.kind = "timeout"

\* C24: immediate first probe.  Every waiter runs its first probe when it
\* is called, before any sleep; so an esc or eso resource that is converged
\* already, and pods that are (one healthy pod per prefix), give success on
\* the first probe at time zero, and an esc resource that reports Ready and
\* Degraded "True" already gives the degraded failure on the first probe.
ImmediateFirstProbe ==
    /\ probes = 0 => pc = "probe" /\ now = 0
    /\ (probes = 1 /\ (fetched # NoFetch \/ listed # NoList)) =>
          /\ now = 0
          /\ nextTick = PollInterval
          /\ (waiter \in {"esc", "eso"} /\ FetchedConverged) => Succeeded
          /\ (Listed /\ OnePerPrefix(listed.items)
                /\ CoveredAndHealthy(listed.items)) => Succeeded
          /\ (waiter = "esc" /\ Reports(fetched, "Ready")
                /\ DegradedTrueIn(fetched)) =>
                /\ Returned
                /\ result = DegradedError(Reported(fetched, "Degraded"))

ImmediateFirstProbeWitness ==
    /\ waiter = "esc"
    /\ probes = 1
    /\ now = 0
    /\ Reports(fetched, "Ready")
    /\ DegradedTrueIn(fetched)
    /\ Returned
    /\ result.kind = "degraded"

\* Snapshot u without the entries of its conditions list that are not maps.
IsMap(e) == e.shape = "map"
Clean(u) == Object(u.failed, u.shape, SelectSeq(u.conditions, IsMap))

\* C25: entry-level tolerance.  A tick of the single-condition or of the
\* convergence waiter on a fetched conditions list leaves the accumulators,
\* and decides, as the probe does on the same list without its entries
\* that are not maps.
EntryTolerance ==
    [][(probes' = probes + 1 /\ waiter \in {"esc", "eso"}
          /\ ~fetched'.failed /\ fetched'.shape = "list") =>
        LET o == IF waiter = "esc"
                 THEN ProbeESC(Clean(fetched'), lastReadyCondition,
                               lastDegradedCondition)
                 ELSE ProbeESO(Clean(fetched'))
        IN  /\ lastReadyCondition' = o.ready
            /\ lastDegradedCondition' = o.degraded
            /\ (pc' = "done") <=> (o.done \/ o.err # NoErr)
            /\ pc' = "done" => result' = o.err]_vars

EntryToleranceWitness ==
    /\ waiter = "esc"
    /\ probes = 2
    /\ fetched.shape = "list"
    /\ Len(fetched.conditions) = 3
    /\ fetched.conditions[1] = BadEntry
    /\ Reports(fetched, "Degraded")
    /\ ~Reports(fetched, "Ready")
    /\ lastDegradedCondition = Reported(fetched, "Degraded")
    /\ Succeeded
====
